---- MODULE Spec2Model ----
(***************************************************************************)
(* A model of wordgrid.py: the WordGrid class (a numpy array of one-       *)
(* character strings with its geometry queries), the dictionary filter    *)
(* built on it, and the bounded-retry reader of positive integers.         *)
(*                                                                         *)
(* A Python string is modelled as a sequence of one-character strings, so  *)
(* "ab" is <<"a","b">> and the empty string is <<>>.  A cell of the numpy  *)
(* array (dtype '<U1') is a string of length 0 or 1.                       *)
(***************************************************************************)
EXTENDS Integers, Sequences, FiniteSets, TLC

VARIABLES rows, cols, grid, prev, ret, steps,
          maxct, defvalue, ct, number, pc, entered

vars == <<rows, cols, grid, prev, ret, steps,
          maxct, defvalue, ct, number, pc, entered>>

\* ret records the last call made on the grid: its name, its arguments, the
\* exception it raised ("none" when it returned) and what it returned.
\* After construction no call has been made.
NoCall == [op |-> "__init__", args |-> <<>>, exc |-> "none", val |-> {}]

gridvars == <<rows, cols, grid, prev, ret, steps>>
readvars == <<maxct, defvalue, ct, number, pc, entered>>

(***************************************************************************)
(* Bounds of the model.                                                    *)
(***************************************************************************)
\* largest row or column count of a grid that is filled and filtered
MaxDim == 2
\* largest row or column count in the geometry-only specification
MaxGeo == 3
\* number of updating calls made on one grid
MaxOps == 2
\* longest dictionary (in lines)
MaxDict == 2
\* largest maxct and defvalue handed to the reader
MaxCt == 3
MaxDef == 2

(***************************************************************************)
(* Characters and strings.                                                 *)
(***************************************************************************)
Gap == " "
Letters == {"a", "b", "A", "B"}
\* what uninitialised array memory may show besides the empty string
Garbage == "?"
Whitespace == {" ", "\n"}

\* str.lower() on one character
Lower(ch) ==
  CASE ch = "A" -> "a"
    [] ch = "B" -> "b"
    [] OTHER -> ch

LowerStr(s) == [i \in 1..Len(s) |-> Lower(s[i])]

Range(s) == {s[i] : i \in 1..Len(s)}

\* all strings over alphabet S of length exactly n / at most n
StringsOfLen(S, n) == [1..n -> S]
StringsUpTo(S, n) == UNION {StringsOfLen(S, k) : k \in 0..n}

RECURSIVE LStrip(_)
LStrip(s) ==
  IF s # <<>> /\ Head(s) \in Whitespace THEN LStrip(Tail(s)) ELSE s

RECURSIVE RStrip(_)
RStrip(s) ==
  IF s # <<>> /\ s[Len(s)] \in Whitespace
  THEN RStrip(SubSeq(s, 1, Len(s) - 1))
  ELSE s

\* str.strip()
Strip(s) == RStrip(LStrip(s))

\* storing a Python string into a '<U1' cell keeps its first character only
ToCell(s) == IF s = <<>> THEN <<>> ELSE <<Head(s)>>

(***************************************************************************)
(* The numpy array: self.grid has shape (n, n) where n is the column       *)
(* count handed to the constructor.                                        *)
(***************************************************************************)
Stored(n) == (0..(n - 1)) \X (0..(n - 1))

\* numpy's index normalisation along an axis of length n: -1 is out of bounds
NormIdx(i, n) ==
  IF 0 <= i /\ i < n THEN i
  ELSE IF -n <= i /\ i < 0 THEN i + n
  ELSE -1

InStore(row, col) == NormIdx(row, cols) >= 0 /\ NormIdx(col, cols) >= 0

\* np.empty(shape=(n, n), dtype=str): the cells are not initialised
EmptyArrays(n) == [Stored(n) -> {<<>>, <<Garbage>>}]

is_valid_index(row, col) ==
  0 <= row /\ row < rows /\ 0 <= col /\ col < cols

ValidCells == {p \in (0..(rows - 1)) \X (0..(cols - 1)) : TRUE}

\* self.grid[row, col] on array g; the caller has checked InStore
get_element(g, row, col) == g[<<NormIdx(row, cols), NormIdx(col, cols)>>]

(***************************************************************************)
(* Geometry.                                                               *)
(***************************************************************************)
\* the (i, j) pairs in the order the two nested loops visit them
Offsets ==
  << <<-1, -1>>, <<-1, 0>>, <<-1, 1>>,
     <<0, -1>>,  <<0, 0>>,  <<0, 1>>,
     <<1, -1>>,  <<1, 0>>,  <<1, 1>> >>

\* the slots (row+i, col+j) in the order the loops reach them
Around(row, col) ==
  [k \in 1..Len(Offsets) |-> <<row + Offsets[k][1], col + Offsets[k][2]>>]

\* a slip that forgets to leave out the cell itself
get_neighbours_index_self(row, col) ==
  SelectSeq(Around(row, col), LAMBDA p : is_valid_index(p[1], p[2]))

\* (i, j) = (0, 0) is the slot (row, col) itself
get_neighbours_index(row, col) ==
  SelectSeq(Around(row, col),
            LAMBDA p : is_valid_index(p[1], p[2]) /\ ~(p = <<row, col>>))

\* neighbour_dict[neighbour]: the neighbour's neighbours without the start
next_neighbours(row, col, neighbour) ==
  SelectSeq(get_neighbours_index(neighbour[1], neighbour[2]),
            LAMBDA q : q # <<row, col>>)

\* the result of a call that may raise: exc is "none" or the exception
Value(v) == [exc |-> "none", val |-> v]
Raised(e) == [exc |-> e, val |-> {}]

get_two_neighbours(g, row, col) ==
  LET neighbours == get_neighbours_index(row, col)
      \* every cell get_element is called on (none when there is no key)
      touched ==
        IF neighbours = <<>> THEN {}
        ELSE {<<row, col>>} \cup Range(neighbours)
               \cup UNION {Range(next_neighbours(row, col, k))
                             : k \in Range(neighbours)}
  IN IF \E p \in touched : ~InStore(p[1], p[2])
     THEN Raised("IndexError")
     ELSE Value(UNION {
            {get_element(g, row, col) \o get_element(g, k[1], k[2])
               \o get_element(g, it[1], it[2])
               : it \in Range(next_neighbours(row, col, k))}
            : k \in Range(neighbours)})

get_all_threegrams(g) ==
  LET each == [p \in ValidCells |-> get_two_neighbours(g, p[1], p[2])]
  IN IF \E p \in ValidCells : each[p].exc # "none"
     THEN Raised("IndexError")
     ELSE Value(UNION {each[p].val : p \in ValidCells})

(***************************************************************************)
(* Counting and filtering.                                                 *)
(***************************************************************************)
\* collections.Counter over the values of f (a sequence or an array)
Counter(f) ==
  [v \in {f[x] : x \in DOMAIN f} |-> Cardinality({x \in DOMAIN f : f[x] = v})]

\* iterating a Python string yields its one-character strings
Chars(word) == [i \in 1..Len(word) |-> <<word[i]>>]

lettercount(g) == Counter(g)

check_ngrams_in_word(word, ngramset, n) ==
  \A i \in 0..(Len(word) - n) : SubSeq(word, i + 1, i + n) \in ngramset

check_lettercount_in_word(word, lc) ==
  LET lettercount_word == Counter(Chars(word))
  IN \A letter \in DOMAIN lettercount_word :
       /\ letter \in DOMAIN lc
       /\ ~(lettercount_word[letter] > lc[letter])

filter_wordlistfile(lines, g) ==
  LET lc == lettercount(g)
      threegrams == get_all_threegrams(g)
      words == [i \in 1..Len(lines) |-> Strip(lines[i])]
      keep(word) ==
        /\ Len(word) > 3
        /\ check_lettercount_in_word(word, lc)
        /\ check_ngrams_in_word(word, threegrams.val, 3)
  IN IF threegrams.exc # "none"
     THEN [exc |-> threegrams.exc, val |-> <<>>]
     ELSE [exc |-> "none", val |-> SelectSeq(words, keep)]

(***************************************************************************)
(* Inputs the calls are tried on.                                          *)
(***************************************************************************)
\* coordinates handed to the queries: inside the grid and one past its end
Coord == 0..MaxDim
\* row strings typed by the user, and lists of strings handed by a caller
RowStrings == StringsUpTo(Letters \cup {Gap}, MaxDim)
ListElems == {<<"a">>, <<"B">>}
RowLists == StringsUpTo(ListElems, MaxDim)
FieldInputs == {<<>>, <<"b">>, <<"a", "b">>}
\* lines of the word list file
DictLines ==
  { <<"a", "b", "a", "b", "\n">>,
    <<"a", "b", "b", "a", " ", "\n">>,
    <<"a", "a", "a", "b", "\n">>,
    <<"\n">> }
Dictionaries == StringsUpTo(DictLines, MaxDict)

(***************************************************************************)
(* WordGrid: construction and the updating calls.                          *)
(***************************************************************************)
\* no read_posint_from_cmdline_withct call is in progress
ReaderIdle ==
  /\ maxct = 1 /\ defvalue = 1 /\ ct = 0 /\ number = 0
  /\ pc = "idle" /\ entered = <<>>

\* WordGrid(m, n)
Construct(m, n) ==
  /\ rows = m
  /\ cols = n
  /\ grid \in EmptyArrays(n)
  /\ prev = grid
  /\ ret = NoCall
  /\ steps = 0

Init ==
  /\ \E m \in 1..MaxDim, n \in 1..MaxDim : Construct(m, n)
  /\ ReaderIdle

Call(op, args, exc, val) ==
  ret' = [op |-> op, args |-> args, exc |-> exc, val |-> val]

Updating ==
  {"__init__", "update_grid_onefield", "update_gridline_from_string",
   "update_gridline_from_list"}

\* A query changes nothing, so whatever a caller reaches by going on after a
\* query it reaches without the query: a run is followed up to its first
\* query.
Building == pc = "idle" /\ ret.op \in Updating

\* self.grid[row, col] = letter inside try/except
update_grid_onefield(row, col, letter) ==
  /\ Building
  /\ steps < MaxOps
  /\ steps' = steps + 1
  /\ prev' = grid
  /\ IF InStore(row, col)
     THEN /\ grid' = [grid EXCEPT ![<<NormIdx(row, cols), NormIdx(col, cols)>>]
                                     = ToCell(letter)]
          /\ Call("update_grid_onefield", <<row, col, letter>>, "none", "written")
     ELSE /\ grid' = grid
          /\ Call("update_grid_onefield", <<row, col, letter>>, "none", "printed")
  /\ UNCHANGED <<rows, cols>>
  /\ UNCHANGED readvars

\* self.grid[row, :] = lst : numpy checks the index, then broadcasts lst
AssignRow(g, row, lst) ==
  IF NormIdx(row, cols) < 0 THEN [exc |-> "IndexError", val |-> g]
  ELSE IF Len(lst) = cols
  THEN [exc |-> "none",
        val |-> [p \in DOMAIN g |->
                   IF p[1] = NormIdx(row, cols) THEN ToCell(lst[p[2] + 1])
                   ELSE g[p]]]
  ELSE IF Len(lst) = 1
  THEN [exc |-> "none",
        val |-> [p \in DOMAIN g |->
                   IF p[1] = NormIdx(row, cols) THEN ToCell(lst[1])
                   ELSE g[p]]]
  ELSE [exc |-> "ValueError", val |-> g]

\* the body shared by update_gridline_from_string and _from_list
UpdateLine(op, row, seq, lst) ==
  /\ Building
  /\ steps < MaxOps
  /\ steps' = steps + 1
  /\ prev' = grid
  /\ IF Len(seq) = rows
     THEN LET a == AssignRow(grid, row, lst)
          IN /\ grid' = a.val
             /\ Call(op, <<row, seq>>, a.exc,
                     IF a.exc = "none" THEN "written" ELSE "raised")
     ELSE /\ grid' = grid
          /\ Call(op, <<row, seq>>, "none", "rejected")
  /\ UNCHANGED <<rows, cols>>
  /\ UNCHANGED readvars

update_gridline_from_string(row, string) ==
  UpdateLine("update_gridline_from_string", row, string, Chars(string))

update_gridline_from_list(row, lst) ==
  UpdateLine("update_gridline_from_list", row, lst, lst)

(***************************************************************************)
(* The queries: each leaves the grid alone and records what it returns.    *)
(***************************************************************************)
Query(op, args, r) ==
  /\ Building
  /\ Call(op, args, r.exc, r.val)
  /\ UNCHANGED <<rows, cols, grid, prev, steps>>
  /\ UNCHANGED readvars

IsValidIndex(row, col) ==
  Query("is_valid_index", <<row, col>>, Value(is_valid_index(row, col)))

GetElement(row, col) ==
  Query("get_element", <<row, col>>,
        IF InStore(row, col) THEN Value(get_element(grid, row, col))
        ELSE Raised("IndexError"))

Lettercount == Query("lettercount", <<>>, Value(lettercount(grid)))

GetNeighboursIndex(row, col) ==
  Query("get_neighbours_index", <<row, col>>,
        Value(get_neighbours_index(row, col)))

GetTwoNeighbours(row, col) ==
  Query("get_two_neighbours", <<row, col>>, get_two_neighbours(grid, row, col))

GetAllThreegrams == Query("get_all_threegrams", <<>>, get_all_threegrams(grid))

FilterWordlistfile(lines) ==
  Query("filter_wordlistfile", <<lines>>, filter_wordlistfile(lines, grid))

Next ==
  \/ \E row \in Coord, col \in Coord, letter \in FieldInputs :
       update_grid_onefield(row, col, letter)
  \/ \E row \in 0..(rows - 1), string \in RowStrings :
       update_gridline_from_string(row, string)
  \/ \E row \in 0..(rows - 1), lst \in RowLists :
       update_gridline_from_list(row, lst)
  \/ \E row \in Coord, col \in Coord : GetElement(row, col)
  \/ Lettercount
  \/ \E p \in ValidCells : GetTwoNeighbours(p[1], p[2])
  \/ GetAllThreegrams

Spec == Init /\ [][Next]_vars

(***************************************************************************)
(* The geometry alone: is_valid_index and get_neighbours_index read only   *)
(* the row and column counts.                                              *)
(***************************************************************************)
GeoCoord == -1..MaxGeo

InitGeo ==
  /\ \E m \in 1..MaxGeo, n \in 1..MaxGeo :
       /\ rows = m
       /\ cols = n
       /\ grid = [p \in Stored(n) |-> <<>>]
  /\ prev = grid
  /\ ret = NoCall
  /\ steps = 0
  /\ ReaderIdle

NextGeo ==
  \/ \E row \in GeoCoord, col \in GeoCoord : IsValidIndex(row, col)
  \/ \E row \in GeoCoord, col \in GeoCoord : GetNeighboursIndex(row, col)

SpecGeo == InitGeo /\ [][NextGeo]_vars

(***************************************************************************)
(* The filter is a function of the grid and the word list: it is applied   *)
(* to every grid the updating calls can leave behind.                      *)
(***************************************************************************)
Cells == {<<>>} \cup {<<ch>> : ch \in Letters \cup {Gap}}

InitFilter ==
  /\ \E m \in 1..MaxDim, n \in 1..MaxDim :
       /\ rows = m
       /\ cols = n
       /\ grid \in [Stored(n) -> Cells]
  /\ prev = grid
  /\ ret = NoCall
  /\ steps = 0
  /\ ReaderIdle

NextFilter == \E lines \in Dictionaries : FilterWordlistfile(lines)

SpecFilter == InitFilter /\ [][NextFilter]_vars

(***************************************************************************)
(* read_posint_from_cmdline_withct: one action per pass of its loop.       *)
(***************************************************************************)
Digits == {"0", "1", "2"}
Signs == {"-", "+"}

DigitValue(ch) ==
  CASE ch = "0" -> 0
    [] ch = "1" -> 1
    [] ch = "2" -> 2

RECURSIVE DecimalValue(_)
DecimalValue(ds) ==
  IF ds = <<>> THEN 0
  ELSE 10 * DecimalValue(SubSeq(ds, 1, Len(ds) - 1)) + DigitValue(ds[Len(ds)])

\* the digits of a typed line once blanks around it and a sign are dropped
Unsigned(s) ==
  LET t == Strip(s)
  IN IF t # <<>> /\ Head(t) \in Signs THEN Tail(t) ELSE t

\* whether int(s) returns (rather than raising ValueError)
IsInt(s) == Unsigned(s) # <<>> /\ \A i \in 1..Len(Unsigned(s)) : Unsigned(s)[i] \in Digits

\* int(s)
IntOf(s) ==
  IF Strip(s) # <<>> /\ Head(Strip(s)) = "-"
  THEN 0 - DecimalValue(Unsigned(s))
  ELSE DecimalValue(Unsigned(s))

\* what the user may type at a prompt
UserInputs ==
  { <<>>, <<"x">>, <<"0">>, <<"-", "2">>, <<"2">>, <<" ", "1">>, <<"1", "x">> }

\* a slip that allows one attempt too many
AttemptsUsedUpLate(c, m) == c > m

\* `if ct >= maxct`
AttemptsUsedUp(c, m) == c >= m

GridAbsent ==
  /\ rows = 1
  /\ cols = 1
  /\ grid = [p \in Stored(1) |-> <<>>]
  /\ prev = grid
  /\ ret = NoCall
  /\ steps = 0

\* the call read_posint_from_cmdline_withct(text, maxct, defvalue);
\* number is unbound until the loop assigns it, 0 stands for that
InitRead ==
  /\ maxct \in 1..MaxCt
  /\ defvalue \in 1..MaxDef
  /\ ct = 0
  /\ number = 0
  /\ pc = "prompt"
  /\ entered = <<>>
  /\ GridAbsent

ReadAttempt(inp) ==
  /\ pc = "prompt"
  /\ ct' = ct + 1
  /\ entered' = Append(entered, inp)
  /\ IF ~IsInt(inp)
     THEN IF AttemptsUsedUp(ct + 1, maxct)
          THEN number' = defvalue /\ pc' = "returned"
          ELSE number' = number /\ pc' = "prompt"
     ELSE IF IntOf(inp) < 1
          THEN IF AttemptsUsedUp(ct + 1, maxct)
               THEN number' = defvalue /\ pc' = "returned"
               ELSE number' = defvalue /\ pc' = "prompt"
          ELSE number' = IntOf(inp) /\ pc' = "returned"
  /\ UNCHANGED <<maxct, defvalue>>
  /\ UNCHANGED gridvars

NextRead == \E inp \in UserInputs : ReadAttempt(inp)

\* input() returns whenever the user types a line or closes the stream
SpecRead == InitRead /\ [][NextRead]_vars /\ WF_vars(NextRead)

(***************************************************************************)
(* The claims.                                                             *)
(***************************************************************************)
RowUpdates == {"update_gridline_from_string", "update_gridline_from_list"}

AllChars == Letters \cup {Gap, Garbage}

CountIn(counter, key) == IF key \in DOMAIN counter THEN counter[key] ELSE 0

\* C1: a coordinate (row, col) is a stored cell that get_element reads if and
\* only if is_valid_index(row, col) holds, whatever the row and column counts
\* and whatever updates were made.
C1_StoredIffValid ==
  ret.op = "get_element" =>
    ((ret.exc = "none") <=> is_valid_index(ret.args[1], ret.args[2]))

\* the j-th element of the sequence a row update was given, as a cell holds it
ElementOf(op, seq, j) ==
  IF op = "update_gridline_from_string" THEN <<seq[j]>> ELSE seq[j]

\* C2: a row update on a valid row is accepted exactly when the length of its
\* sequence equals cols; after an accepted update cell (row, j) holds the
\* j-th element and every other row is as it was.
C2_RowUpdateAcceptsColsLength ==
  ret.op \in RowUpdates =>
    /\ (ret.val = "written") <=> (Len(ret.args[2]) = cols)
    /\ ret.val = "written" =>
         \A p \in DOMAIN grid :
           IF p[1] = ret.args[1]
           THEN grid[p] = ElementOf(ret.op, ret.args[2], p[2] + 1)
           ELSE grid[p] = prev[p]

\* C3: a row update whose sequence length differs from cols is rejected and
\* leaves every cell as it was: nothing is written, truncated, padded or
\* repeated into the row.
C3_WrongLengthChangesNothing ==
  (ret.op \in RowUpdates /\ Len(ret.args[2]) # cols) =>
    (ret.val # "written" /\ grid = prev)

\* C4: lettercount() maps every character c to the number of non-gap cells
\* holding c; the gap marker and the empty string of a never-assigned cell
\* are no keys of it.
C4_LettercountSkipsGaps ==
  ret.op = "lettercount" =>
    /\ \A ch \in AllChars :
         CountIn(ret.val, <<ch>>) =
           Cardinality({p \in ValidCells \cap DOMAIN grid :
                          ch # Gap /\ grid[p] = <<ch>>})
    /\ <<Gap>> \notin DOMAIN ret.val
    /\ <<>> \notin DOMAIN ret.val

Abs(x) == IF x < 0 THEN 0 - x ELSE x

Chebyshev(p, q) ==
  IF Abs(p[1] - q[1]) > Abs(p[2] - q[2])
  THEN Abs(p[1] - q[1]) ELSE Abs(p[2] - q[2])

Adjacent(p) == {q \in ValidCells : Chebyshev(p, q) = 1}

\* the letters along every path a, b, c with b next to a, c next to b, c # a
PathStrings(a) ==
  UNION {{grid[a] \o grid[b] \o grid[c] : c \in Adjacent(b) \ {a}}
           : b \in Adjacent(a)}

\* C5: get_two_neighbours(r, c) returns exactly the strings of the two-step
\* paths from (r, c) that do not return to it, and get_all_threegrams() is
\* the union of these sets over every valid cell.
C5_TrigramsAreThePaths ==
  /\ ret.op = "get_two_neighbours" =>
       /\ ret.exc = "none"
       /\ ret.val = PathStrings(<<ret.args[1], ret.args[2]>>)
  /\ ret.op = "get_all_threegrams" =>
       /\ ret.exc = "none"
       /\ ret.val = UNION {PathStrings(a) : a \in ValidCells}

Occurrences(word, ch) == Cardinality({i \in 1..Len(word) : word[i] = ch})

\* a stripped line the filter is to keep on grid g
Fits(word, g) ==
  /\ Len(word) > 3
  /\ \A ch \in Range(word) :
       Occurrences(word, ch) <= CountIn(lettercount(g), <<ch>>)
  /\ \A i \in 1..(Len(word) - 2) :
       SubSeq(word, i, i + 2) \in get_all_threegrams(g).val

\* C6: filter_wordlistfile returns, in dictionary order, exactly the stripped
\* lines longer than 3 whose letters fit the grid's letter count and whose
\* every 3-letter substring is a trigram of the grid.
C6_FilterKeepsFittingWords ==
  ret.op = "filter_wordlistfile" =>
    /\ ret.exc = "none"
    /\ ret.val =
         SelectSeq([i \in 1..Len(ret.args[1]) |-> Strip(ret.args[1][i])],
                   LAMBDA word : Fits(word, grid))

LowerGrid(g) == [p \in DOMAIN g |-> LowerStr(g[p])]

\* C7: whether a word is accepted does not depend on the letter case of the
\* grid cells or of the word: it is accepted exactly when its lower-case
\* form is accepted on the grid entered in lower case.
C7_FilterFoldsCase ==
  (ret.op = "filter_wordlistfile" /\ ret.exc = "none") =>
    \A i \in 1..Len(ret.args[1]) :
      LET word == Strip(ret.args[1][i])
      IN (word \in Range(ret.val)) <=>
           (LowerStr(word) \in
              Range(filter_wordlistfile(<<LowerStr(word)>>, LowerGrid(grid)).val))

Corner(row, col) == row \in {0, rows - 1} /\ col \in {0, cols - 1}
Border(row, col) == row \in {0, rows - 1} \/ col \in {0, cols - 1}

NeighbourCount(row, col) ==
  IF Corner(row, col) THEN 3
  ELSE IF Border(row, col) THEN 5
  ELSE 8

NoDuplicates(seq) ==
  \A i \in 1..Len(seq), j \in 1..Len(seq) : seq[i] = seq[j] => i = j

ThreeFiveEight ==
  /\ NoDuplicates(ret.val)
  /\ Len(ret.val) = NeighbourCount(ret.args[1], ret.args[2])

NeighboursOfValidCell ==
  ret.op = "get_neighbours_index" /\ is_valid_index(ret.args[1], ret.args[2])

C9_TrigramsHaveThreeChars ==
  (ret.op \in {"get_two_neighbours", "get_all_threegrams"} /\ ret.exc = "none")
    => \A gram \in ret.val : Len(gram) = 3

ValidInput(inp) == IsInt(inp) /\ IntOf(inp) >= 1

\* what the reader is to return once it has read `entered`
FirstValidOrDefault ==
  IF \E i \in 1..Len(entered) : ValidInput(entered[i])
  THEN IntOf(entered[CHOOSE i \in 1..Len(entered) :
                       /\ ValidInput(entered[i])
                       /\ \A j \in 1..(i - 1) : ~ValidInput(entered[j])])
  ELSE defvalue

ReaderSafe ==
  /\ Len(entered) <= maxct
  /\ \A i \in 1..(Len(entered) - 1) : ~ValidInput(entered[i])
  /\ pc = "prompt" =>
       /\ Len(entered) < maxct
       /\ \A i \in 1..Len(entered) : ~ValidInput(entered[i])
  /\ pc = "returned" =>
       /\ number = FirstValidOrDefault
       /\ number >= 1

\* C10: for maxct >= 1 and defvalue >= 1 the reader prompts at most maxct
\* times, never prompts after an input that parses as an integer >= 1,
\* terminates, and returns the first such input among the first maxct, else
\* defvalue: always a positive integer.
C10_ReaderReturnsPositive == []ReaderSafe /\ <>(pc = "returned")

\* the last allowed attempt, after invalid ones, was valid and is returned
C10_Witness ==
  /\ pc = "returned"
  /\ maxct >= 2
  /\ Len(entered) = maxct
  /\ ValidInput(entered[maxct])
  /\ number = IntOf(entered[maxct])
  /\ number # defvalue

====
